---------------------------- MODULE Spec2Model ----------------------------
(***************************************************************************)
(* Model of irba.py: the claim pipeline (derived columns, the four left    *)
(* joins that build the master table, the five rule flags, the per-rule    *)
(* collections) followed by the dashboard script's tabs (the EDA tabs and  *)
(* the hospital / doctor / agent rollups with their top-10 rankings).      *)
(*                                                                         *)
(* Representation.  A table is a sequence of rows, a row is a record.  A   *)
(* cell that pandas may hold as NaN / NaT / None is a sequence of length   *)
(* at most one: <<>> is the missing value, <<v>> is the value v.  Claim ID *)
(* cells are plain integers.  A raw date cell of a CSV file is a record    *)
(* telling whether its text parses as a date.  An agent is identified by   *)
(* the rank of its name in sort order.  Columns no computation reads       *)
(* (Gender, Product, Specialty) are left out.                              *)
(***************************************************************************)
EXTENDS Integers, Sequences, FiniteSets, TLC

VARIABLES
    pc,               \* position of the script
    policy_columns,   \* columns of Policy_Info.csv
    claim_basic, claim_diagnosis, claim_doctor, policy_info, hospital_info,
    master, master_columns,
    claims_per_rule, agents_per_rule,
    hospital_flags, top_hospitals,
    doctor_flags_sum, top_doctors,
    agent_flags, top_agents

vars == <<pc, policy_columns, claim_basic, claim_diagnosis, claim_doctor,
          policy_info, hospital_info, master, master_columns,
          claims_per_rule, agents_per_rule, hospital_flags, top_hospitals,
          doctor_flags_sum, top_doctors, agent_flags, top_agents>>

----------------------------------------------------------------------------
(* Cells *)

Null == <<>>
Some(v) == <<v>>
Val(x) == x[1]

\* a date cell as read from a CSV file: the text of a date (its calendar year and
\* its day number), text that is no date, or nothing
RawDate(y, d) == [kind |-> "date", year |-> y, day |-> d]
RawText == [kind |-> "text", year |-> 0, day |-> 0]
RawEmpty == [kind |-> "empty", year |-> 0, day |-> 0]

\* pd.to_datetime(..., errors="coerce"): text that is no date becomes NaT
to_datetime(c) ==
    IF c.kind = "date" THEN Some([year |-> c.year, day |-> c.day]) ELSE Null

\* comparisons of a numeric cell with a number: any comparison with NaN is False
Gt(x, n) == x # Null /\ Val(x) > n
Le(x, n) == x # Null /\ Val(x) <= n
Lt(x, n) == x # Null /\ Val(x) < n
Eq(x, n) == x # Null /\ Val(x) = n

Restrict(r, cols) == [c \in cols |-> r[c]]
NullRow(cols) == [c \in cols |-> Null]

RECURSIVE SumSeq(_)
SumSeq(s) == IF s = <<>> THEN 0 ELSE Head(s) + SumSeq(Tail(s))

RECURSIVE Concat(_)
Concat(ss) == IF ss = <<>> THEN <<>> ELSE Head(ss) \o Concat(Tail(ss))

Min(S) == CHOOSE x \in S : \A y \in S : x <= y

RECURSIVE SortAsc(_)
SortAsc(S) == IF S = {} THEN <<>> ELSE <<Min(S)>> \o SortAsc(S \ {Min(S)})

Range(s) == {s[i] : i \in DOMAIN s}

----------------------------------------------------------------------------
(* Program constants *)

ManyDiagnoses == 3
ShortStay == 2
ShortStayDiag == 2
LongStay == 7
OneDiag == 1
ManyDoctors == 2
TopN == 10

rule_flags == <<"flag_many_diagnoses", "flag_shortstay_manydiag",
                "flag_longstay_onediag", "flag_manydoctors", "flag_age_missing">>

RuleSet == Range(rule_flags)

ClaimColumns == {"Claim_ID", "Policy_ID", "Hospital_ID", "Admission_Date",
                 "Discharged_Date"}
PolicyColumns == {"Policy_ID", "Inception_Date", "Birth_Year", "Agent"}
HospitalColumns == {"Hospital_ID", "Location"}

----------------------------------------------------------------------------
(* Preprocessing *)

\* mutant: the stay counted without its first day
Length_of_Stay_exclusive(adm, dis) ==
    LET days == IF adm = Null \/ dis = Null THEN Null
                ELSE Some(Val(dis).day - Val(adm).day)
    IN  IF Lt(days, 0) THEN Null ELSE days

\* (Discharged - Admission).dt.days + 1, then negative values set to None
Length_of_Stay(adm, dis) ==
    LET days == IF adm = Null \/ dis = Null THEN Null
                ELSE Some(Val(dis).day - Val(adm).day + 1)
    IN  IF Lt(days, 0) THEN Null ELSE days

\* mutant: a negative age kept
Age_keep_negative(inception, birth) ==
    IF inception = Null \/ birth = Null THEN Null
    ELSE Some(Val(inception).year - Val(birth))

\* Inception Date .dt.year - Birth Year, then negative values set to None
Age(inception, birth) ==
    LET a == IF inception = Null \/ birth = Null THEN Null
             ELSE Some(Val(inception).year - Val(birth))
    IN  IF Lt(a, 0) THEN Null ELSE a

PreprocessClaim(r) ==
    LET adm == to_datetime(r.Admission_Date)
        dis == to_datetime(r.Discharged_Date)
    IN  [Length_of_Stay |-> Length_of_Stay(adm, dis)] @@
        [r EXCEPT !.Admission_Date = adm, !.Discharged_Date = dis]

PreprocessPolicy(r) ==
    LET inc == to_datetime(r.Inception_Date)
    IN  [Age |-> Age(inc, r.Birth_Year)] @@ [r EXCEPT !.Inception_Date = inc]

----------------------------------------------------------------------------
(* Joins *)

\* groupby(key)[col].count(): one row per non-null key, in key order, holding
\* the number of the key's rows whose col cell is not null
GroupCount(rows, col, name) ==
    LET keys == SortAsc({rows[i].Claim_ID : i \in DOMAIN rows})
        n(k) == Cardinality({i \in DOMAIN rows :
                                rows[i].Claim_ID = k /\ rows[i][col] # Null})
    IN  [j \in DOMAIN keys |->
            [c \in {"Claim_ID", name} |->
                IF c = "Claim_ID" THEN keys[j] ELSE Some(n(keys[j]))]]

\* mutant: how="inner", which drops the left rows without a match
LeftMerge_inner(left, right, on, rightCols) ==
    LET extra == rightCols \ {on}
        RowsFor(l) ==
            LET m == SelectSeq(right, LAMBDA r : r[on] = l[on])
            IN  [j \in DOMAIN m |-> l @@ Restrict(m[j], extra)]
    IN  Concat([i \in DOMAIN left |-> RowsFor(left[i])])

\* pd.merge(left, right, on=on, how="left"): every left row in order, once per
\* right row with the same key (null keys match each other), and once with
\* nulls in the right columns when no right row has its key
LeftMerge(left, right, on, rightCols) ==
    LET extra == rightCols \ {on}
        RowsFor(l) ==
            LET m == SelectSeq(right, LAMBDA r : r[on] = l[on])
            IN  IF m = <<>> THEN <<l @@ NullRow(extra)>>
                ELSE [j \in DOMAIN m |-> l @@ Restrict(m[j], extra)]
    IN  Concat([i \in DOMAIN left |-> RowsFor(left[i])])

diagnosis_count == GroupCount(claim_diagnosis, "Diagnosis", "Num_Diagnoses")
doctor_count == GroupCount(claim_doctor, "Doctor_ID", "Num_Doctors")

PolicyAllColumns == policy_columns \cup {"Age"}

BuildMaster ==
    LET m1 == LeftMerge(claim_basic, diagnosis_count, "Claim_ID",
                        {"Claim_ID", "Num_Diagnoses"})
        m2 == LeftMerge(m1, doctor_count, "Claim_ID", {"Claim_ID", "Num_Doctors"})
        m3 == LeftMerge(m2, policy_info, "Policy_ID", PolicyAllColumns)
    IN  LeftMerge(m3, hospital_info, "Hospital_ID", HospitalColumns)

MasterColumns ==
    ClaimColumns \cup {"Length_of_Stay", "Num_Diagnoses", "Num_Doctors"}
        \cup PolicyAllColumns \cup HospitalColumns

----------------------------------------------------------------------------
(* Rule flags *)

\* DataFrame.get(col, default): the column when it exists, else the default
Get(row, col, default) == IF col \in DOMAIN row THEN row[col] ELSE Some(default)

Flags(row) ==
    [flag_many_diagnoses |-> Some(Gt(Get(row, "Num_Diagnoses", 0), ManyDiagnoses)),
     flag_shortstay_manydiag |->
        Some(Le(Get(row, "Length_of_Stay", 0), ShortStay)
             /\ Gt(Get(row, "Num_Diagnoses", 0), ShortStayDiag)),
     flag_longstay_onediag |->
        Some(Gt(Get(row, "Length_of_Stay", 0), LongStay)
             /\ Eq(Get(row, "Num_Diagnoses", 0), OneDiag)),
     flag_manydoctors |-> Some(Gt(Get(row, "Num_Doctors", 0), ManyDoctors)),
     flag_age_missing |-> Some(row.Age = Null)]

\* master.loc[master[rule] == True, col].tolist()
Flagged(rule, col) ==
    LET hit == SelectSeq(master, LAMBDA r : r[rule] = Some(TRUE))
    IN  [i \in DOMAIN hit |-> hit[i][col]]

\* Series.unique(): first occurrences, in order
RECURSIVE Unique(_)
Unique(s) ==
    IF s = <<>> THEN <<>>
    ELSE LET u == Unique(SubSeq(s, 1, Len(s) - 1))
         IN  IF s[Len(s)] \in Range(u) THEN u ELSE Append(u, s[Len(s)])

----------------------------------------------------------------------------
(* Rollups and rankings *)

\* mutant: .count() for .sum(), every cell that is not missing counts 1
FlagValue_count(x) == IF x = Null THEN 0 ELSE 1

\* a flag cell summed: True counts 1, False 0, a missing cell is skipped
FlagValue(x) == IF x = Null THEN 0 ELSE IF Val(x) THEN 1 ELSE 0

\* rows.groupby(keycol)[rule_flags].sum(): one row per non-null key, in key order
GroupSum(rows, keycol) ==
    LET present == {i \in DOMAIN rows : rows[i][keycol] # Null}
        keys == SortAsc({Val(rows[i][keycol]) : i \in present})
        n(k, rule) == SumSeq([i \in DOMAIN rows |->
                        IF rows[i][keycol] = Some(k) THEN FlagValue(rows[i][rule])
                        ELSE 0])
    IN  [j \in DOMAIN keys |->
            [key |-> keys[j], counts |-> [rule \in RuleSet |-> n(keys[j], rule)]]]

\* mutant: the total leaves out the last rule's column
RowTotal_skip_last(counts) ==
    SumSeq([j \in 1..(Len(rule_flags) - 1) |-> counts[rule_flags[j]]])

\* table["Total_Flags"] = table.sum(axis=1)
RowTotal(counts) == SumSeq([j \in DOMAIN rule_flags |-> counts[rule_flags[j]]])

WithTotal(table) ==
    [j \in DOMAIN table |->
        [key |-> table[j].key, counts |-> table[j].counts,
         Total_Flags |-> RowTotal(table[j].counts)]]

\* the orders of the rows I of table that descend by Total_Flags
RECURSIVE DescendingOrders(_, _)
DescendingOrders(table, I) ==
    IF I = {} THEN {<<>>}
    ELSE LET first == {i \in I : \A j \in I :
                            table[i].Total_Flags >= table[j].Total_Flags}
         IN  UNION {{<<i>> \o o : o \in DescendingOrders(table, I \ {i})} :
                        i \in first}

\* sort_values("Total_Flags", ascending=False) with the default kind="quicksort",
\* which is not a stable sort: rows of equal total come out in an order that
\* depends on the numpy build, so every descending order is an outcome
sort_values(table) ==
    {[j \in DOMAIN o |-> table[o[j]]] : o \in DescendingOrders(table, DOMAIN table)}

\* mutant: one row too many
head_one_more(table, n) ==
    SubSeq(table, 1, IF Len(table) < n + 1 THEN Len(table) ELSE n + 1)

\* DataFrame.head(n)
head(table, n) == SubSeq(table, 1, IF Len(table) < n THEN Len(table) ELSE n)

Top(table) == {head(s, TopN) : s \in sort_values(table)}

\* mutant: the assignments deduplicated before the merge
doctor_flags_dedup ==
    LET cols == {"Claim_ID"} \cup RuleSet
    IN  LeftMerge(Unique(claim_doctor),
                  [i \in DOMAIN master |-> Restrict(master[i], cols)],
                  "Claim_ID", cols)

\* claim_doctor.merge(master[["Claim ID"] + rule_flags], on="Claim ID", how="left")
doctor_flags ==
    LET cols == {"Claim_ID"} \cup RuleSet
    IN  LeftMerge(claim_doctor, [i \in DOMAIN master |-> Restrict(master[i], cols)],
                  "Claim_ID", cols)

----------------------------------------------------------------------------
(* The script, top to bottom *)

Empty == <<>>

\* lines 17-24
Preprocess ==
    /\ pc = "preprocess"
    /\ claim_basic' = [i \in DOMAIN claim_basic |-> PreprocessClaim(claim_basic[i])]
    /\ policy_info' = [i \in DOMAIN policy_info |-> PreprocessPolicy(policy_info[i])]
    /\ pc' = "merge"
    /\ UNCHANGED <<policy_columns, claim_diagnosis, claim_doctor, hospital_info,
                   master, master_columns, claims_per_rule, agents_per_rule,
                   hospital_flags, top_hospitals, doctor_flags_sum, top_doctors,
                   agent_flags, top_agents>>

\* lines 36-43
MergeSummaries ==
    /\ pc = "merge"
    /\ master' = BuildMaster
    /\ master_columns' = MasterColumns
    /\ pc' = "flags"
    /\ UNCHANGED <<policy_columns, claim_basic, claim_diagnosis, claim_doctor,
                   policy_info, hospital_info, claims_per_rule, agents_per_rule,
                   hospital_flags, top_hospitals, doctor_flags_sum, top_doctors,
                   agent_flags, top_agents>>

\* lines 46-50
RuleFlags ==
    /\ pc = "flags"
    /\ master' = [i \in DOMAIN master |-> Flags(master[i]) @@ master[i]]
    /\ master_columns' = master_columns \cup RuleSet
    /\ pc' = "collect"
    /\ UNCHANGED <<policy_columns, claim_basic, claim_diagnosis, claim_doctor,
                   policy_info, hospital_info, claims_per_rule, agents_per_rule,
                   hospital_flags, top_hospitals, doctor_flags_sum, top_doctors,
                   agent_flags, top_agents>>

\* lines 53-57 (hospitals_per_rule and doctors_per_rule are read by nothing)
CollectFlagged ==
    /\ pc = "collect"
    /\ claims_per_rule' = [rule \in RuleSet |-> Flagged(rule, "Claim_ID")]
    /\ agents_per_rule' =
          IF "Agent" \in master_columns
          THEN [rule \in RuleSet |-> Unique(Flagged(rule, "Agent"))]
          ELSE Empty
    /\ pc' = "eda"
    /\ UNCHANGED <<policy_columns, claim_basic, claim_diagnosis, claim_doctor,
                   policy_info, hospital_info, master, master_columns,
                   hospital_flags, top_hospitals, doctor_flags_sum, top_doctors,
                   agent_flags, top_agents>>

Display(next) ==
    /\ pc' = next
    /\ UNCHANGED <<policy_columns, claim_basic, claim_diagnosis, claim_doctor,
                   policy_info, hospital_info, master, master_columns,
                   claims_per_rule, agents_per_rule, hospital_flags, top_hospitals,
                   doctor_flags_sum, top_doctors, agent_flags, top_agents>>

\* lines 68-151: the Overall, Claims, Policy, Hospital and Doctor tabs
EdaTabs == pc = "eda" /\ Display("eda_agent")

\* lines 154-169: policy_info.groupby("Agent") on a table that has the column
EdaAgentTab ==
    /\ pc = "eda_agent"
    /\ "Agent" \in policy_columns
    /\ Display("rules_claims")

\* line 156: policy_info.groupby("Agent") raises KeyError without the column,
\* and the script stops there
EdaAgentTabKeyError ==
    /\ pc = "eda_agent"
    /\ "Agent" \notin policy_columns
    /\ Display("failed")

\* lines 176-189
RulesClaimsTab == pc = "rules_claims" /\ Display("rules_hospitals")

\* lines 195-196
HospitalRollup ==
    /\ pc = "rules_hospitals"
    /\ hospital_flags' = WithTotal(GroupSum(master, "Hospital_ID"))
    /\ pc' = "rank_hospitals"
    /\ UNCHANGED <<policy_columns, claim_basic, claim_diagnosis, claim_doctor,
                   policy_info, hospital_info, master, master_columns,
                   claims_per_rule, agents_per_rule, top_hospitals,
                   doctor_flags_sum, top_doctors, agent_flags, top_agents>>

\* lines 197-204
HospitalRank ==
    /\ pc = "rank_hospitals"
    /\ top_hospitals' \in Top(hospital_flags)
    /\ pc' = "rules_doctors"
    /\ UNCHANGED <<policy_columns, claim_basic, claim_diagnosis, claim_doctor,
                   policy_info, hospital_info, master, master_columns,
                   claims_per_rule, agents_per_rule, hospital_flags,
                   doctor_flags_sum, top_doctors, agent_flags, top_agents>>

\* lines 210-212
DoctorRollup ==
    /\ pc = "rules_doctors"
    /\ doctor_flags_sum' = WithTotal(GroupSum(doctor_flags, "Doctor_ID"))
    /\ pc' = "rank_doctors"
    /\ UNCHANGED <<policy_columns, claim_basic, claim_diagnosis, claim_doctor,
                   policy_info, hospital_info, master, master_columns,
                   claims_per_rule, agents_per_rule, hospital_flags, top_hospitals,
                   top_doctors, agent_flags, top_agents>>

\* lines 213-220
DoctorRank ==
    /\ pc = "rank_doctors"
    /\ top_doctors' \in Top(doctor_flags_sum)
    /\ pc' = "rules_agents"
    /\ UNCHANGED <<policy_columns, claim_basic, claim_diagnosis, claim_doctor,
                   policy_info, hospital_info, master, master_columns,
                   claims_per_rule, agents_per_rule, hospital_flags, top_hospitals,
                   doctor_flags_sum, agent_flags, top_agents>>

\* lines 225-228
AgentRollup ==
    /\ pc = "rules_agents"
    /\ "Agent" \in master_columns
    /\ agent_flags' = WithTotal(GroupSum(master, "Agent"))
    /\ pc' = "rank_agents"
    /\ UNCHANGED <<policy_columns, claim_basic, claim_diagnosis, claim_doctor,
                   policy_info, hospital_info, master, master_columns,
                   claims_per_rule, agents_per_rule, hospital_flags, top_hospitals,
                   doctor_flags_sum, top_doctors, top_agents>>

\* lines 229-236
AgentRank ==
    /\ pc = "rank_agents"
    /\ top_agents' \in Top(agent_flags)
    /\ pc' = "done"
    /\ UNCHANGED <<policy_columns, claim_basic, claim_diagnosis, claim_doctor,
                   policy_info, hospital_info, master, master_columns,
                   claims_per_rule, agents_per_rule, hospital_flags, top_hospitals,
                   doctor_flags_sum, top_doctors, agent_flags>>

\* lines 237-238; no run gets here: a table without the Agent column has stopped
\* the script in the EDA Agent tab, so Next leaves this branch out
AgentInfo ==
    /\ pc = "rules_agents"
    /\ "Agent" \notin master_columns
    /\ Display("done")

----------------------------------------------------------------------------
(* Input tables *)

ClaimRow(cid, pid, hid, adm, dis) ==
    [Claim_ID |-> cid, Policy_ID |-> pid, Hospital_ID |-> hid,
     Admission_Date |-> adm, Discharged_Date |-> dis]
DiagnosisRow(cid, d) == [Claim_ID |-> cid, Diagnosis |-> d]
DoctorRow(cid, did) == [Claim_ID |-> cid, Doctor_ID |-> did]
PolicyRow(pid, inc, birth, agent) ==
    [Policy_ID |-> pid, Inception_Date |-> inc, Birth_Year |-> birth, Agent |-> agent]
HospitalRow(hid) == [Hospital_ID |-> hid, Location |-> Some("L")]

SeqsUpTo(S, n) == UNION {[1..k -> S] : k \in 0..n}
Repeat(x, n) == [i \in 1..n |-> x]

\* Bounds of the inputs
MaxClaims == 2
MaxDay == 10
MaxDiagnoses == 4
MaxDoctors == 3
MaxPolicies == 2
MaxAssignments == 2
FreeKeys == 2

\* the script starts on the six tables as read from the files
InitTables(claims, diagnoses, doctors, policies, hospitals, policyCols) ==
    /\ pc = "preprocess"
    /\ policy_columns \in policyCols
    /\ claim_basic \in claims
    /\ claim_diagnosis \in diagnoses
    /\ claim_doctor \in doctors
    /\ policy_info \in {[i \in DOMAIN p |-> Restrict(p[i], policy_columns)] :
                            p \in policies}
    /\ hospital_info \in hospitals
    /\ master = Empty
    /\ master_columns = {}
    /\ claims_per_rule = Empty
    /\ agents_per_rule = Empty
    /\ hospital_flags = Empty
    /\ top_hospitals = Empty
    /\ doctor_flags_sum = Empty
    /\ top_doctors = Empty
    /\ agent_flags = Empty
    /\ top_agents = Empty

WithOrWithoutAgent == {PolicyColumns, PolicyColumns \ {"Agent"}}

Day1 == RawDate(2023, 1)

\* One to MaxClaims claims with distinct ids, each with or without a policy id
\* and a hospital id; claim 1 with no diagnosis or MaxDiagnoses of them; one
\* policy, with or without an agent, or with two rows under two agents; up to
\* MaxAssignments assignments of doctors 1 and 2 to claims 1 and 2 and to
\* claim 0, which no claim row has
Init ==
    InitTables(
        UNION {{[i \in 1..n |-> ClaimRow(i, f[i][1], f[i][2], Day1, Day1)] :
                    f \in [1..n -> {Some(1), Null} \X {Some(1), Null}]} :
               n \in 1..MaxClaims},
        {Repeat(DiagnosisRow(1, Some("D")), k) : k \in {0, MaxDiagnoses}},
        SeqsUpTo({DoctorRow(0, Some(1)), DoctorRow(1, Some(1)), DoctorRow(2, Some(1)),
                  DoctorRow(1, Some(2))}, MaxAssignments),
        {<<PolicyRow(Some(1), Day1, Some(1990), Some(1))>>,
         <<PolicyRow(Some(1), Day1, Some(1990), Null)>>,
         <<PolicyRow(Some(1), Day1, Some(1990), Some(1)),
           PolicyRow(Some(1), Day1, Some(1990), Some(2))>>},
        {<<HospitalRow(Some(1))>>},
        WithOrWithoutAgent)

Next ==
    \/ Preprocess
    \/ MergeSummaries
    \/ RuleFlags
    \/ CollectFlagged
    \/ EdaTabs
    \/ EdaAgentTab
    \/ EdaAgentTabKeyError
    \/ RulesClaimsTab
    \/ HospitalRollup
    \/ HospitalRank
    \/ DoctorRollup
    \/ DoctorRank
    \/ AgentRollup
    \/ AgentRank

Spec == Init /\ [][Next]_vars

\* The pipeline up to the per-rule collections
NextBuild ==
    \/ Preprocess
    \/ MergeSummaries
    \/ RuleFlags
    \/ CollectFlagged

\* Up to MaxClaims claims whose ids may repeat, with or without a policy id; a
\* policy table of up to MaxPolicies rows whose keys may repeat or be missing; a
\* hospital table of no row, one row, or two rows of one key; claim 1 with no
\* diagnosis row, with one, or with one that holds no diagnosis
InitJoin ==
    InitTables(
        SeqsUpTo({ClaimRow(c, p, Some(1), Day1, Day1) :
                    c \in {1, 2}, p \in {Some(1), Null}},
                 MaxClaims),
        {<<>>, <<DiagnosisRow(1, Some("D"))>>, <<DiagnosisRow(1, Null)>>},
        {<<>>, <<DoctorRow(1, Some(1))>>},
        SeqsUpTo({PolicyRow(p, Day1, Some(1990), Some(1)) : p \in {Some(1), Null}},
                 MaxPolicies),
        {<<>>, <<HospitalRow(Some(1))>>, <<HospitalRow(Some(1)), HospitalRow(Some(1))>>},
        {PolicyColumns})

SpecJoin == InitJoin /\ [][NextBuild]_vars

\* One claim with every pair of date cells up to MaxDay, 0 to MaxDiagnoses
\* diagnoses and 0 to MaxDoctors doctors; its policy present or not, with and
\* without a usable inception date and birth year
InitDerived ==
    InitTables(
        {<<ClaimRow(1, p, Some(1), adm, dis)>> :
            p \in {Some(1), Null},
            adm \in {RawDate(2023, 1), RawDate(2023, 3), RawText, RawEmpty},
            dis \in {RawDate(2023, d) : d \in 1..MaxDay} \cup {RawText}},
        {Repeat(DiagnosisRow(1, Some("D")), k) : k \in 0..MaxDiagnoses},
        {Repeat(DoctorRow(1, Some(1)), k) : k \in 0..MaxDoctors},
        {<<>>} \cup
        {<<PolicyRow(Some(1), inc, birth, Some(1))>> :
            inc \in {Day1, RawText}, birth \in {Null, Some(1990), Some(2030)}},
        {<<HospitalRow(Some(1))>>},
        {PolicyColumns})

SpecDerived == InitDerived /\ [][NextBuild]_vars

\* A ranking step of the script on a rollup table of more than TopN keys: keys
\* 1 .. TopN-1 hold the totals 1 .. TopN-1, and FreeKeys further keys hold any
\* totals from 0 to TopN, so that totals tie inside and across the cut
RankTables ==
    LET n == TopN - 1 + FreeKeys
        row(k, t) == [key |-> k,
                      counts |-> [rule \in RuleSet |->
                                    IF rule = "flag_age_missing" THEN t ELSE 0],
                      Total_Flags |-> t]
    IN  {[k \in 1..n |-> row(k, IF k < TopN THEN k ELSE f[k])] :
            f \in [TopN..n -> 0..TopN]}

InitRank ==
    /\ pc \in {"rank_hospitals", "rank_doctors", "rank_agents"}
    /\ \E t \in RankTables :
        /\ hospital_flags = IF pc = "rank_hospitals" THEN t ELSE Empty
        /\ doctor_flags_sum = IF pc = "rank_doctors" THEN t ELSE Empty
        /\ agent_flags = IF pc = "rank_agents" THEN t ELSE Empty
    /\ policy_columns = PolicyColumns
    /\ claim_basic = Empty
    /\ claim_diagnosis = Empty
    /\ claim_doctor = Empty
    /\ policy_info = Empty
    /\ hospital_info = Empty
    /\ master = Empty
    /\ master_columns = MasterColumns \cup RuleSet
    /\ claims_per_rule = [rule \in RuleSet |-> Empty]
    /\ agents_per_rule = [rule \in RuleSet |-> Empty]
    /\ top_hospitals = Empty
    /\ top_doctors = Empty
    /\ top_agents = Empty

NextRank ==
    \/ HospitalRank
    \/ DoctorRank
    \/ AgentRank

SpecRank == InitRank /\ [][NextRank]_vars

----------------------------------------------------------------------------
(* Properties *)

Steps == <<"preprocess", "merge", "flags", "collect", "eda", "eda_agent",
           "rules_claims", "rules_hospitals", "rank_hospitals", "rules_doctors",
           "rank_doctors", "rules_agents", "rank_agents", "done">>
StepIndex(p) == CHOOSE i \in DOMAIN Steps : Steps[i] = p

\* the step at position p has run
Past(p) ==
    IF pc = "failed" THEN StepIndex(p) <= StepIndex("eda_agent")
    ELSE StepIndex(p) < StepIndex(pc)

Count(t, x) == Cardinality({i \in DOMAIN t : t[i] = x})
SameRows(a, b) ==
    /\ Len(a) = Len(b)
    /\ \A x \in Range(a) \cup Range(b) : Count(a, x) = Count(b, x)
ClaimPart(t) ==
    [i \in DOMAIN t |-> Restrict(t[i], ClaimColumns \cup {"Length_of_Stay"})]
UniqueKey(t, col) == \A i, j \in DOMAIN t : t[i][col] = t[j][col] => i = j
NoPolicyMatch(r) ==
    \A j \in DOMAIN policy_info : policy_info[j].Policy_ID # r.Policy_ID
IsTrue(r, rule) == r[rule] = Some(TRUE)

C2_CountsNeverNull ==
    Past("merge") =>
        \A i \in DOMAIN master :
            /\ master[i].Num_Diagnoses # Null /\ Val(master[i].Num_Diagnoses) >= 0
            /\ master[i].Num_Doctors # Null /\ Val(master[i].Num_Doctors) >= 0

\* C3: each of the four numeric flags is its predicate evaluated with every
\* missing numeric operand replaced by 0 (so a missing stay with more than two
\* diagnoses is flagged as a short stay)
C3_FlagsDefaultMissingToZero ==
    Past("flags") =>
        \A i \in DOMAIN master :
            LET z(x) == IF x = Null THEN 0 ELSE Val(x)
                diag == z(master[i].Num_Diagnoses)
                stay == z(master[i].Length_of_Stay)
                docs == z(master[i].Num_Doctors)
            IN  /\ master[i].flag_many_diagnoses = Some(diag > 3)
                /\ master[i].flag_shortstay_manydiag = Some(stay <= 2 /\ diag > 2)
                /\ master[i].flag_longstay_onediag = Some(stay > 7 /\ diag = 1)
                /\ master[i].flag_manydoctors = Some(docs > 2)

\* C4: preprocessing gives a claim the stay Discharged - Admission + 1 in days,
\* and no stay (null) when a date cell is missing or no date or when that number
\* is negative; so a stay is never negative
C4_LengthOfStay ==
    [][pc = "preprocess" =>
        \A i \in DOMAIN claim_basic :
            LET a == claim_basic[i].Admission_Date
                d == claim_basic[i].Discharged_Date
                stay == claim_basic'[i].Length_of_Stay
            IN  /\ IF a.kind # "date" \/ d.kind # "date" \/ d.day - a.day + 1 < 0
                   THEN stay = Null
                   ELSE stay = Some(d.day - a.day + 1)
                /\ stay = Null \/ Val(stay) >= 0]_vars

C4_Witness ==
    /\ Past("preprocess")
    /\ \E i \in DOMAIN claim_basic :
        /\ claim_basic[i].Admission_Date = Some([year |-> 2023, day |-> 1])
        /\ claim_basic[i].Discharged_Date = Some([year |-> 2023, day |-> 10])
        /\ claim_basic[i].Length_of_Stay = Some(10)

\* C5: Age is the inception year minus the birth year, null when that is
\* negative or cannot be computed; every claim is on the master table; a claim
\* whose Policy ID no Policy row has holds null in every Policy attribute; and
\* age_missing is true exactly on the master rows whose Age is null
C5_AgeMissing ==
    /\ Past("preprocess") =>
        \A j \in DOMAIN policy_info :
            LET r == policy_info[j]
                known == r.Inception_Date # Null /\ r.Birth_Year # Null
            IN  r.Age = IF known /\ Val(r.Inception_Date).year >= Val(r.Birth_Year)
                        THEN Some(Val(r.Inception_Date).year - Val(r.Birth_Year))
                        ELSE Null
    /\ Past("merge") =>
        /\ \A c \in DOMAIN claim_basic :
                \E i \in DOMAIN master : master[i].Claim_ID = claim_basic[c].Claim_ID
        /\ \A i \in DOMAIN master :
                /\ NoPolicyMatch(master[i]) =>
                    \A col \in PolicyAllColumns \ {"Policy_ID"} : master[i][col] = Null
                /\ \A j \in DOMAIN policy_info :
                    policy_info[j].Policy_ID = master[i].Policy_ID
                        => \E k \in DOMAIN policy_info :
                              /\ policy_info[k].Policy_ID = master[i].Policy_ID
                              /\ policy_info[k].Age = master[i].Age
    /\ Past("flags") =>
        \A i \in DOMAIN master :
            master[i].flag_age_missing = Some(master[i].Age = Null)

C5_Witness ==
    /\ Past("flags")
    /\ policy_info # <<>>
    /\ policy_info[1].Age = Some(33)
    /\ \E i \in DOMAIN master :
        /\ NoPolicyMatch(master[i])
        /\ master[i].Age = Null
        /\ IsTrue(master[i], "flag_age_missing")

RollupConsistent(table, rows, keycol) ==
    \A j \in DOMAIN table :
        LET c == table[j].counts
        IN  /\ table[j].Total_Flags =
                    c.flag_many_diagnoses + c.flag_shortstay_manydiag
                    + c.flag_longstay_onediag + c.flag_manydoctors + c.flag_age_missing
            /\ \A rule \in RuleSet :
                c[rule] = Cardinality({i \in DOMAIN rows :
                                        /\ rows[i][keycol] = Some(table[j].key)
                                        /\ IsTrue(rows[i], rule)})

\* C6: in the hospital, doctor and agent rollups, a key's Total_Flags is the sum
\* of its five per-rule counts, and a per-rule count is the number of the key's
\* grouped rows on which the flag is true
C6_RollupConsistency ==
    /\ Past("rules_hospitals") => RollupConsistent(hospital_flags, master, "Hospital_ID")
    /\ Past("rules_doctors") => RollupConsistent(doctor_flags_sum, doctor_flags, "Doctor_ID")
    /\ Past("rules_agents") => RollupConsistent(agent_flags, master, "Agent")

C6_Witness ==
    /\ pc = "done"
    /\ \E j \in DOMAIN hospital_flags :
        /\ hospital_flags[j].Total_Flags >= 3
        /\ hospital_flags[j].counts.flag_age_missing >= 1
        /\ hospital_flags[j].counts.flag_many_diagnoses >= 1
    /\ \E j \in DOMAIN doctor_flags_sum : doctor_flags_sum[j].Total_Flags >= 2
    /\ \E j \in DOMAIN agent_flags : agent_flags[j].Total_Flags >= 2

\* C7: without an Agent column in the Policy table the run does not fail
C7_NoAgentColumnNeverFails ==
    "Agent" \notin policy_columns => pc # "failed"

\* C8 as stated: the count of doctor D for rule R is the number of assignment
\* rows of D whose claim has flag R true on the master table
C8_DoctorCountIsFlaggedAssignments ==
    Past("rules_doctors") =>
        \A j \in DOMAIN doctor_flags_sum : \A rule \in RuleSet :
            doctor_flags_sum[j].counts[rule] =
                Cardinality({i \in DOMAIN claim_doctor :
                    /\ claim_doctor[i].Doctor_ID = Some(doctor_flags_sum[j].key)
                    /\ \E m \in DOMAIN master :
                        /\ master[m].Claim_ID = claim_doctor[i].Claim_ID
                        /\ IsTrue(master[m], rule)})

\* C8 amended: the count of doctor D for rule R is the number of pairs of an
\* assignment row of D and a master row of its claim with flag R true: nothing
\* is deduplicated, an assignment to a claim the master table lacks adds 0, and
\* an assignment to a claim that is on k master rows is counted on each of them
C8_DoctorCountIsFlaggedPairs ==
    Past("rules_doctors") =>
        \A j \in DOMAIN doctor_flags_sum : \A rule \in RuleSet :
            doctor_flags_sum[j].counts[rule] =
                Cardinality({p \in (DOMAIN claim_doctor) \X (DOMAIN master) :
                    /\ claim_doctor[p[1]].Doctor_ID = Some(doctor_flags_sum[j].key)
                    /\ master[p[2]].Claim_ID = claim_doctor[p[1]].Claim_ID
                    /\ IsTrue(master[p[2]], rule)})

C8_Witness ==
    /\ Past("rules_doctors")
    /\ UniqueKey(master, "Claim_ID")
    /\ \E j \in DOMAIN doctor_flags_sum :
        /\ doctor_flags_sum[j].counts.flag_age_missing = 2
        /\ \E a, b \in DOMAIN claim_doctor :
            /\ claim_doctor[a].Doctor_ID = Some(doctor_flags_sum[j].key)
            /\ claim_doctor[b].Doctor_ID = Some(doctor_flags_sum[j].key)
            /\ claim_doctor[a].Claim_ID # claim_doctor[b].Claim_ID

Position(full, row) == CHOOSE i \in DOMAIN full : full[i].key = row.key
Omitted(top, full) == {r \in Range(full) : \A a \in DOMAIN top : top[a].key # r.key}

Ranked(top, full) ==
    /\ Len(top) <= 10
    /\ Len(top) = IF Len(full) < 10 THEN Len(full) ELSE 10
    /\ \A a \in DOMAIN top : top[a] \in Range(full)
    /\ \A a, b \in DOMAIN top :
        /\ a < b => top[a].Total_Flags >= top[b].Total_Flags
        /\ a # b => top[a].key # top[b].key
    /\ \A r \in Omitted(top, full) : \A a \in DOMAIN top :
            top[a].Total_Flags >= r.Total_Flags

StableTies(top, full) ==
    /\ \A a, b \in DOMAIN top :
        a < b /\ top[a].Total_Flags = top[b].Total_Flags
            => Position(full, top[a]) < Position(full, top[b])
    /\ \A r \in Omitted(top, full) : \A a \in DOMAIN top :
        top[a].Total_Flags = r.Total_Flags
            => Position(full, top[a]) < Position(full, r)

\* C9 as stated: a ranked table has at most 10 keys, descends by Total_Flags,
\* holds no key of a smaller total than an omitted key, and keeps keys of equal
\* totals in the key order of the full rollup, in its order and in its cut
C9_RankedWithStableTies ==
    /\ Past("rank_hospitals") =>
        Ranked(top_hospitals, hospital_flags) /\ StableTies(top_hospitals, hospital_flags)
    /\ Past("rank_doctors") =>
        Ranked(top_doctors, doctor_flags_sum) /\ StableTies(top_doctors, doctor_flags_sum)
    /\ Past("rank_agents") =>
        Ranked(top_agents, agent_flags) /\ StableTies(top_agents, agent_flags)

\* C9 amended: a ranked table has at most 10 keys, descends by Total_Flags and
\* holds no key of a smaller total than an omitted key; the order of keys of
\* equal totals, and which of them the cut keeps, is not determined
C9_Ranked ==
    /\ Past("rank_hospitals") => Ranked(top_hospitals, hospital_flags)
    /\ Past("rank_doctors") => Ranked(top_doctors, doctor_flags_sum)
    /\ Past("rank_agents") => Ranked(top_agents, agent_flags)

C9_Witness ==
    /\ pc = "rules_doctors"
    /\ Len(hospital_flags) > 10
    /\ Len(top_hospitals) = 10
    /\ \E r \in Omitted(top_hospitals, hospital_flags) :
        /\ r.key < 10
        /\ \E a \in DOMAIN top_hospitals :
            top_hospitals[a].Total_Flags = r.Total_Flags
    /\ \E a, b \in DOMAIN top_hospitals :
        /\ a < b
        /\ top_hospitals[a].Total_Flags = top_hospitals[b].Total_Flags
        /\ top_hospitals[a].key > top_hospitals[b].key

SumOver(table, rule) == SumSeq([j \in DOMAIN table |-> table[j].counts[rule]])

\* C10: per rule, the agents' counts add up to the number of flagged master
\* rows that have an agent, and the hospitals' counts to the number of flagged
\* master rows that have a hospital id; a claim without a matching Policy row
\* has age_missing true and no agent, so it is counted under no agent
C10_RollupsSkipMissingKeys ==
    /\ Past("rules_agents") =>
        \A rule \in RuleSet :
            SumOver(agent_flags, rule) =
                Cardinality({i \in DOMAIN master :
                                master[i].Agent # Null /\ IsTrue(master[i], rule)})
    /\ Past("rules_hospitals") =>
        \A rule \in RuleSet :
            SumOver(hospital_flags, rule) =
                Cardinality({i \in DOMAIN master :
                                master[i].Hospital_ID # Null /\ IsTrue(master[i], rule)})
    /\ Past("flags") =>
        \A i \in DOMAIN master :
            NoPolicyMatch(master[i]) =>
                /\ IsTrue(master[i], "flag_age_missing")
                /\ "Agent" \in master_columns => master[i].Agent = Null

C10_Witness ==
    /\ pc = "done"
    /\ \E i \in DOMAIN master :
        NoPolicyMatch(master[i]) /\ master[i].Hospital_ID = Null
    /\ SumOver(agent_flags, "flag_many_diagnoses") >= 1
    /\ SumOver(agent_flags, "flag_age_missing")
            < Len(claims_per_rule.flag_age_missing)
    /\ SumOver(hospital_flags, "flag_age_missing")
            < Len(claims_per_rule.flag_age_missing)

=============================================================================
